---- MODULE Spec2Model ----
(***************************************************************************)
(* GDPR Notice Generator (appv2.py): a Streamlit script that is run from   *)
(* top to bottom once per user interaction.  The state is the browser      *)
(* session's st.session_state and the Google spreadsheet that holds one    *)
(* worksheet per organization.  Every action below is one interaction: the *)
(* widget event followed by the whole script run it triggers, st.rerun()   *)
(* included.                                                               *)
(*                                                                         *)
(* Text that the script converts (access codes, organization names,        *)
(* category names) is a sequence of one-character strings, so that strip,  *)
(* replace and slicing are computed; text the script only copies is a      *)
(* plain string.  A Python dict is a function whose domain is the set of   *)
(* its keys, a Python list a sequence.                                     *)
(***************************************************************************)
EXTENDS Integers, Sequences, FiniteSets, TLC

\* ------------------------------------------------------------------ bounds
MaxPurposes == 2
MaxExtra == 2
MaxClicks == 5

\* ------------------------------------------------------- python primitives
None == <<"<None>">>
EmptyDict == <<>>

Get(d, k, default) == IF k \in DOMAIN d THEN d[k] ELSE default

Put(d, k, v) == [x \in (DOMAIN d) \cup {k} |-> IF x = k THEN v ELSE d[x]]

Pop(s, i) == [k \in 1..(Len(s) - 1) |-> IF k <= i THEN s[k] ELSE s[k + 1]]

Range(s) == {s[k] : k \in DOMAIN s}

IsSpace(ch) == ch \in {" ", "\t", "\n"}

RECURSIVE LStrip(_)
LStrip(s) == IF s # <<>> /\ IsSpace(Head(s)) THEN LStrip(Tail(s)) ELSE s

RECURSIVE RStrip(_)
RStrip(s) ==
    IF s # <<>> /\ IsSpace(s[Len(s)]) THEN RStrip(SubSeq(s, 1, Len(s) - 1)) ELSE s

Strip(s) == RStrip(LStrip(s))

RECURSIVE StripQuotes(_)
StripQuotes(s) ==
    IF s # <<>> /\ Head(s) = "'" THEN StripQuotes(Tail(s))
    ELSE IF s # <<>> /\ s[Len(s)] = "'" THEN StripQuotes(SubSeq(s, 1, Len(s) - 1))
    ELSE s

RECURSIVE Join(_, _)
Join(sep, items) ==
    IF items = <<>> THEN <<>>
    ELSE IF Len(items) = 1 THEN items[1]
    ELSE items[1] \o sep \o Join(sep, Tail(items))

\* ----------------------------------------------------------- configuration
SHEET_NAME == "GDPR Questionnaire Data"

FinancialDetails == <<"F","i","n","a","n","c","i","a","l"," ","d","e","t","a","i","l","s">>
PoliticalUnion == <<"P","o","l","i","t","i","c","a","l","/","U","n","i","o","n">>

\* The part of the catalog the model selects from (two of its 28 entries).
DATA_CATEGORIES ==
    [c \in {FinancialDetails, PoliticalUnion} |->
        IF c = FinancialDetails
        THEN <<"payroll, tax, bank accounts, expenses, pensions">>
        ELSE <<"political affiliation, mandates, trade union membership">>]

\* st.secrets["companies"]: access code -> display name.
get_companies ==
    [code \in {<<"k","1">>, <<"k","2">>} |->
        IF code = <<"k","1">> THEN <<"A","/","B">> ELSE <<"'","Q","'">>]

\* A lookup that answers an unknown code with the code itself.
ValidateEchoes(code) == Get(get_companies, Strip(code), Strip(code))

validate_code(code) == Get(get_companies, Strip(code), None)

TabNameLimit == 100

make_tab_name(company_name) ==
    LET safe == [k \in DOMAIN company_name |->
                    IF company_name[k] \in {"\\", "/", "?", "*", "[", "]", ":"}
                    THEN "-" ELSE company_name[k]]
        stripped == StripQuotes(safe)
    IN  SubSeq(stripped, 1, IF Len(stripped) < TabNameLimit THEN Len(stripped)
                            ELSE TabNameLimit)

subject_options ==
    <<"Employees", "Customers", "Website Users", "Event Participants",
      "Loyalty Card Holders", "Athletes", "Other">>
share_options == <<"No", "Yes">>
trans_options == <<"No", "Yes (Outside EU/UK)">>

\* ------------------------------------------------------ session-state keys
\* A key of st.session_state is <<name, purpose index, category key>>; the
\* index is -1 and the category key empty where the python key has none.
K(name) == <<name, -1, <<>>>>
KI(name, i) == <<name, i, <<>>>>
AUTH == K("authenticated")
COMPANY == K("current_company")
PURPOSES == K("purposes")
ExtraKey(i) == KI("extra_cats", i)
CatWidget(i) == KI("cat", i)

\* cat.replace(" ", "_").replace("/", "_").replace("(", "").replace(")", "")
RECURSIVE cat_key(_)
cat_key(cat) ==
    IF cat = <<>> THEN <<>>
    ELSE IF Head(cat) \in {" ", "/"} THEN <<"_">> \o cat_key(Tail(cat))
    ELSE IF Head(cat) \in {"(", ")"} THEN cat_key(Tail(cat))
    ELSE <<Head(cat)>> \o cat_key(Tail(cat))

DirectKey(i, cat) == <<"direct", i, cat_key(cat)>>

\* ------------------------------------------------------ persistence adapter
\* A worksheet is the list of its rows (get_all_values); the spreadsheet maps
\* tab names to worksheets.  json.dumps/json.loads: every value of the saved
\* state is a str, bool, list or str-keyed dict, on which the encoding is
\* injective; the blob is the encoded text.
json_dumps(state_dict) == <<"json", state_dict>>
json_loads(raw) == raw[2]

Header == <<"last_updated", "state">>
Now == "now"

\* gspread get_all_records: first row is the header, one dict per later row.
get_all_records(rows) ==
    IF Len(rows) <= 1 THEN <<>>
    ELSE [r \in 1..(Len(rows) - 1) |->
            [h \in Range(rows[1]) |->
                rows[r + 1][CHOOSE c \in DOMAIN rows[1] : rows[1][c] = h]]]

\* load_data_from_sheet; ok = FALSE when the client or spreadsheet cannot be
\* opened (the broad except branch), which yields {} like a missing worksheet.
load_data_from_sheet(sheets, company_name, ok) ==
    LET tab == make_tab_name(company_name) IN
    IF ~ok THEN EmptyDict
    ELSE IF tab \notin DOMAIN sheets THEN EmptyDict
    ELSE LET records == get_all_records(sheets[tab]) IN
         IF records # <<>> THEN json_loads(Get(records[1], "state", json_dumps(EmptyDict)))
         ELSE EmptyDict

\* A save that appends a row on every call instead of replacing the first.
SaveAlwaysAppend(sheets, company_name, state_dict) ==
    LET tab == make_tab_name(company_name)
        sheet == IF tab \in DOMAIN sheets THEN sheets[tab] ELSE <<Header>>
    IN  Put(sheets, tab, Append(sheet, <<Now, json_dumps(state_dict)>>))

\* A save that leaves an existing record as it is.
SaveKeepsFirst(sheets, company_name, state_dict) ==
    LET tab == make_tab_name(company_name)
        sheet == IF tab \in DOMAIN sheets THEN sheets[tab] ELSE <<Header>>
    IN  IF Len(sheet) > 1
        THEN Put(sheets, tab, sheet)
        ELSE Put(sheets, tab, Append(sheet, <<Now, json_dumps(state_dict)>>))

\* save_data_to_sheet: the spreadsheet after the call.
save_data_to_sheet(sheets, company_name, state_dict) ==
    LET tab == make_tab_name(company_name)
        sheet == IF tab \in DOMAIN sheets THEN sheets[tab] ELSE <<Header>>
        row == <<Now, json_dumps(state_dict)>>
    IN  IF Len(sheet) > 1
        THEN Put(sheets, tab, [sheet EXCEPT ![2] = row])
        ELSE Put(sheets, tab, Append(sheet, row))

\* ------------------------------------------------------------ state helpers
SaveableKeys(s) ==
    {K("company_name"), K("subject_cat"), K("activities"), PURPOSES}
        \cup {ExtraKey(i) : i \in 0..(Len(Get(s, PURPOSES, <<>>)) - 1)}

extract_saveable_state(s) ==
    [k \in SaveableKeys(s) \cap DOMAIN s |-> s[k]]

\* A restore that ignores the saved state.
RestoreNothing(s, saved) == s

restore_state(s, saved) ==
    [k \in (DOMAIN s) \cup (DOMAIN saved) |-> IF k \in DOMAIN s THEN s[k] ELSE saved[k]]

\* ------------------------------------------------------------------ events
\* The interaction a run handles: kind, purpose index, and the value entered,
\* whose type depends on the kind.
NoEvent == [kind |-> "none", i |-> -1, payload |-> <<>>]
Event(kind, i, v) == [kind |-> kind, i |-> i, payload |-> v]
On(e, kind, i) == e.kind = kind /\ e.i = i

Details(p) == Get(p, "details", EmptyDict)

\* A list object shared by st.session_state["extra_cats_k"] and the details of
\* the purposes that hold a reference to it (al[j] = k): an in-place append or
\* pop shows in all of them.
SetExtraList(s, al, k, list) ==
    Put(Put(s, PURPOSES,
            [j \in DOMAIN s[PURPOSES] |->
                IF al[j] = k
                THEN Put(s[PURPOSES][j], "details",
                         Put(Details(s[PURPOSES][j]), "extra_cats", list))
                ELSE s[PURPOSES][j]]),
        ExtraKey(k), list)

FirstIn(positions) ==
    IF positions = {} THEN 0 ELSE CHOOSE q \in positions : \A r \in positions : q <= r

RepeatedKeys(keys) == {q \in DOMAIN keys : \E r \in 1..(q - 1) : keys[r] = keys[q]}

\* Position of the first category whose widget key repeats an earlier one of
\* the same purpose (the button that raises the duplicate-key error); 0 if none.
FirstDuplicate(cats) ==
    FirstIn(RepeatedKeys([q \in DOMAIN cats |-> cat_key(cats[q])]))

\* Lines 308-333: the Yes/No buttons, one pair per category, in list order.
RECURSIVE DirectToggles(_, _, _, _, _, _, _, _)
DirectToggles(s, i, cats, dup, pos, saved_direct, e, dpc) ==
    IF pos > Len(cats) THEN [ss |-> s, dpc |-> dpc, status |-> "ok"]
    ELSE IF pos = dup THEN [ss |-> s, dpc |-> dpc, status |-> "DuplicateWidgetID"]
    ELSE IF On(e, "ToggleDirect", i) /\ e.payload.cat = cats[pos]
    THEN [ss |-> Put(s, DirectKey(i, cats[pos]), e.payload.val), dpc |-> dpc, status |-> "rerun"]
    ELSE DirectToggles(s, i, cats, dup, pos + 1, saved_direct, e,
            Put(dpc, cats[pos],
                Get(s, DirectKey(i, cats[pos]), Get(saved_direct, cats[pos], TRUE))))

\* Lines 340-383: the widgets below the toggles.  Their identity includes the
\* default taken from the saved details, so each returns the value of the
\* event that targets it, or else that default.
IndirectSource(sd, e, i) ==
    IF On(e, "EditIndirect", i) THEN e.payload ELSE Get(sd, "indirect_source", "")

ShareDefault(sd) ==
    IF Get(sd, "shared", "Internal use only") # "Internal use only" THEN "Yes" ELSE "No"

Sharing(sd, e, i) == IF On(e, "EditSharing", i) THEN e.payload ELSE ShareDefault(sd)

ThirdParty(sd, e, i) ==
    IF Sharing(sd, e, i) # "Yes" THEN ""
    ELSE IF On(e, "EditWho", i) THEN e.payload
    ELSE IF ShareDefault(sd) = "Yes" THEN Get(sd, "shared", "")
    ELSE ""

Retention(sd, e, i) ==
    IF On(e, "EditRetention", i) THEN e.payload ELSE Get(sd, "retention", "")

Transfers(sd, e, i) ==
    IF On(e, "EditTransfers", i) THEN e.payload
    ELSE IF Get(sd, "transfers", "No") \in Range(trans_options)
         THEN Get(sd, "transfers", "No")
         ELSE trans_options[1]

\* Lines 385-395: write back to purpose details.
WriteBack(s, al, i, details) ==
    [ss |-> Put(s, PURPOSES,
                [s[PURPOSES] EXCEPT ![i + 1] = Put(s[PURPOSES][i + 1], "details", details)]),
     alias |-> [al EXCEPT ![i + 1] = i],
     status |-> "ok"]

ExpanderWidgets(t, al, i, e, sd, selected_cats) ==
    IF t.status # "ok" THEN [ss |-> t.ss, alias |-> al, status |-> t.status]
    ELSE WriteBack(t.ss, al, i,
            [categories |-> selected_cats,
             extra_cats |-> t.ss[ExtraKey(i)],
             comment |-> Join(<<",", " ">>, t.ss[ExtraKey(i)]),
             direct_per_cat |-> t.dpc,
             indirect_source |-> IndirectSource(sd, e, i),
             shared |-> IF Sharing(sd, e, i) = "Yes"
                        THEN ThirdParty(sd, e, i) ELSE "Internal use only",
             retention |-> Retention(sd, e, i),
             transfers |-> Transfers(sd, e, i)])

ExpanderToggles(s, al, i, e, sd, selected_cats, all_cats_for_purpose) ==
    ExpanderWidgets(
        DirectToggles(s, i, all_cats_for_purpose, FirstDuplicate(all_cats_for_purpose), 1,
                      Get(sd, "direct_per_cat", EmptyDict), e, EmptyDict),
        al, i, e, sd, selected_cats)

\* Lines 269-284: the add form and the delete buttons of the custom categories.
ExpanderForms(s, al, i, e, sd, selected_cats) ==
    IF On(e, "DelExtra", i) /\ e.payload < Len(s[ExtraKey(i)])
    THEN [ss |-> SetExtraList(s, al, i, Pop(s[ExtraKey(i)], e.payload)),
          alias |-> al, status |-> "rerun"]
    ELSE IF On(e, "AddExtra", i) /\ Strip(e.payload) # <<>>
    THEN ExpanderToggles(
            SetExtraList(s, al, i, Append(s[ExtraKey(i)], Strip(e.payload))), al, i, e, sd,
            selected_cats, selected_cats \o Append(s[ExtraKey(i)], Strip(e.payload)))
    ELSE ExpanderToggles(s, al, i, e, sd, selected_cats, selected_cats \o s[ExtraKey(i)])

\* Lines 257-263: the multiselect.  A widget's identity is its key together
\* with its label and default, so it keeps a value that differs from its
\* default only while label and default stay the same; only the multiselect is
\* drawn before the point where a run can fail, so only its value is kept in
\* the session (under cat_i, with the identity).
MultiSelect(s, i, e, wid) ==
    IF On(e, "SelectCats", i) THEN e.payload
    ELSE IF CatWidget(i) \in DOMAIN s /\ s[CatWidget(i)].id = wid THEN s[CatWidget(i)].val
    ELSE wid[2]

InCatalog(c) == c \in DOMAIN DATA_CATEGORIES

WidgetId(p) == <<p.title, SelectSeq(Get(Details(p), "categories", <<>>), InCatalog)>>

\* Lines 266-267: extra_cats_i is created from the saved details when absent,
\* and is then the same list object as the details' extra_cats.
InitExtra(s, sd, i) ==
    IF ExtraKey(i) \in DOMAIN s THEN s
    ELSE Put(s, ExtraKey(i), Get(sd, "extra_cats", <<>>))

InitAlias(s, al, sd, i) ==
    IF ExtraKey(i) \notin DOMAIN s /\ "extra_cats" \in DOMAIN sd
    THEN [al EXCEPT ![i + 1] = i] ELSE al

ExpanderCats(s, al, i, e, sd, wid, selected_cats) ==
    ExpanderForms(Put(InitExtra(s, sd, i), CatWidget(i), [id |-> wid, val |-> selected_cats]),
                  InitAlias(s, al, sd, i), i, e, sd, selected_cats)

\* Lines 252-395: the expander of purpose i (0-based).
RenderPurpose(s, al, i, e) ==
    ExpanderCats(s, al, i, e, Details(s[PURPOSES][i + 1]), WidgetId(s[PURPOSES][i + 1]),
                 MultiSelect(s, i, e, WidgetId(s[PURPOSES][i + 1])))

RECURSIVE RenderFrom(_, _, _, _)
RenderNext(r, i, e) ==
    IF r.status # "ok"
    THEN [ss |-> r.ss, alias |-> r.alias, status |-> r.status, at |-> i]
    ELSE RenderFrom(r.ss, r.alias, i + 1, e)

RenderFrom(s, al, i, e) ==
    IF i >= Len(s[PURPOSES]) THEN [ss |-> s, alias |-> al, status |-> "ok", at |-> -1]
    ELSE RenderNext(RenderPurpose(s, al, i, e), i, e)

GateState == [k \in {AUTH, COMPANY} |-> IF k = AUTH THEN FALSE ELSE None]

\* Lines 234-238: the purpose form's submit.
purpose_form(purposes, p_title, p_desc) ==
    IF p_title # ""
    THEN Append(purposes, [title |-> p_title, desc |-> p_desc, details |-> EmptyDict])
    ELSE purposes

\* Lines 498-501: Start New Questionnaire deletes every key and reruns, which
\* ends at the gate with the two keys of lines 146-149.
MainFooter(r, e) ==
    IF r.status = "ok" /\ e.kind = "StartNew"
    THEN [ss |-> GateState, alias |-> <<>>, status |-> "gate", at |-> -1]
    ELSE r

\* Lines 240-247: the purpose list with its remove buttons, then the expanders.
MainList(s, al, e) ==
    IF e.kind = "RemovePurpose"
    THEN [ss |-> Put(s, PURPOSES, Pop(s[PURPOSES], e.i)),
          alias |-> Pop(al, e.i), status |-> "rerun", at |-> -1]
    ELSE MainFooter(RenderFrom(s, al, 0, e), e)

MainForms(s, al, e) ==
    IF e.kind = "AddPurpose"
    THEN MainList(Put(s, PURPOSES, purpose_form(s[PURPOSES], e.payload.title, e.payload.desc)),
                  IF Len(purpose_form(s[PURPOSES], e.payload.title, e.payload.desc)) > Len(s[PURPOSES])
                  THEN Append(al, -1) ELSE al,
                  e)
    ELSE MainList(s, al, e)

SubjectCat(s, e) ==
    IF e.kind = "EditSubjectCat" THEN e.payload ELSE Get(s, K("subject_cat"), "Employees")

Activities(s, e) ==
    IF e.kind = "EditActivities" THEN e.payload ELSE Get(s, K("activities"), "")

\* Lines 217-229: subject_options.index(...) raises ValueError for a stored
\* value that is not an option.
MainSubject(s, al, e) ==
    IF SubjectCat(s, e) \notin Range(subject_options)
    THEN [ss |-> s, alias |-> al, status |-> "ValueError", at |-> -1]
    ELSE MainForms(Put(Put(s, K("subject_cat"), SubjectCat(s, e)),
                       K("activities"), Activities(s, e)),
                   al, e)

CompanyName(s, e) ==
    IF e.kind = "EditCompanyName" THEN e.payload ELSE Get(s, K("company_name"), s[COMPANY])

MainHeader(s, al, e) == MainSubject(Put(s, K("company_name"), CompanyName(s, e)), al, e)

\* Lines 179-501: one pass over the main page for event e.
RunMain(s, al, e) ==
    MainHeader(IF PURPOSES \in DOMAIN s THEN s ELSE Put(s, PURPOSES, <<>>), al, e)

\* A run that completes or ends in st.rerun() drops the state of the widgets
\* it did not draw: the multiselects of the expanders after the last one drawn.
\* A run that ends in an exception drops nothing.
Undrawn(r) ==
    {k \in DOMAIN r.ss :
        /\ k[1] = "cat"
        /\ k[2] >= (IF r.status = "rerun" THEN r.at + 1 ELSE Len(r.ss[PURPOSES]))}

on_script_finished(r) ==
    IF r.status \in {"ok", "rerun"}
    THEN [r EXCEPT !.ss = [k \in (DOMAIN r.ss) \ Undrawn(r) |-> r.ss[k]]]
    ELSE r

AfterRerun(r) ==
    IF r.status = "rerun" THEN on_script_finished(RunMain(r.ss, r.alias, NoEvent)) ELSE r

\* A run that ends in st.rerun() is followed by a run without an event.
RunScript(s, al, e) == AfterRerun(on_script_finished(RunMain(s, al, e)))

\* ------------------------------------------------------- export and notice
\* The list that treats the joined comment as one category.
AllCatsFromComment(d) ==
    Get(d, "categories", <<>>)
        \o (IF Get(d, "comment", <<>>) # <<>> THEN <<d["comment"]>> ELSE <<>>)

\* Lines 407-409.
all_cats_export(d) == Get(d, "categories", <<>>) \o Get(d, "extra_cats", <<>>)

\* Lines 400-437: the rows of the Processing Details table for one purpose.
ExportRows(s, p) ==
    LET d == Details(p)
        direct_per_cat == Get(d, "direct_per_cat", EmptyDict)
        Row(cat, direct, source) ==
            [Company |-> Get(s, K("company_name"), <<>>),
             SubjectCategory |-> Get(s, K("subject_cat"), ""),
             Purpose |-> p.title,
             Description |-> p.desc,
             DataCategory |-> cat,
             ObtainedDirectly |-> direct,
             SourceIfNotDirect |-> source,
             Sharing |-> Get(d, "shared", ""),
             Retention |-> Get(d, "retention", ""),
             Transfers |-> Get(d, "transfers", "")]
    IN  IF all_cats_export(d) # <<>>
        THEN [k \in DOMAIN all_cats_export(d) |->
                LET cat == all_cats_export(d)[k] IN
                Row(cat,
                    IF Get(direct_per_cat, cat, TRUE) THEN "Yes" ELSE "No",
                    IF ~Get(direct_per_cat, cat, TRUE)
                    THEN Get(d, "indirect_source", "") ELSE "")]
        ELSE <<Row(<<>>, "", Get(d, "indirect_source", ""))>>

RECURSIVE Flatten(_)
Flatten(lists) == IF lists = <<>> THEN <<>> ELSE Head(lists) \o Flatten(Tail(lists))

ProcessingDetails(s) ==
    Flatten([k \in DOMAIN s[PURPOSES] |-> ExportRows(s, s[PURPOSES][k])])

\* The note as typed, without the fallback.
SourceTextNoFallback(d) == Get(d, "indirect_source", "")

\* Line 483: d.get('indirect_source') or "Not specified".
source_text(d) ==
    IF Get(d, "indirect_source", "") # "" THEN d["indirect_source"] ELSE "Not specified"

\* Lines 468-486: the "Which personal data do we use?" paragraphs of a purpose.
NoticeParagraphs(p) ==
    LET d == Details(p)
        direct_per_cat == Get(d, "direct_per_cat", EmptyDict)
        cats == Get(d, "categories", <<>>) \o Get(d, "extra_cats", <<>>)
    IN  [k \in DOMAIN cats |->
            LET cat == cats[k]
                is_direct == Get(direct_per_cat, cat, TRUE)
            IN  [Category |-> cat,
                 Specifics |-> Get(DATA_CATEGORIES, cat, cat),
                 Purpose |-> p.title,
                 Retention |-> Get(d, "retention", ""),
                 DisclosedTo |-> Get(d, "shared", ""),
                 Source |-> IF is_direct
                            THEN <<"Obtained directly from you.">>
                            ELSE <<"Not obtained directly from you - ", source_text(d)>>,
                 Warning |-> Get(d, "transfers", "No") # "No"]]

Notice(s) ==
    Flatten([k \in DOMAIN s[PURPOSES] |-> NoticeParagraphs(s[PURPOSES][k])])

NoOutput == [shown |-> FALSE]
Generated(s) == [shown |-> TRUE, rows |-> ProcessingDetails(s), notice |-> Notice(s)]

\* ------------------------------------------------------------------ inputs
Codes == {<<" ","k","1">>, <<"z","z">>}
CompanyNames == {<<"A","c","m","e">>}
SubjectChoices == {"Customers"}
ActivityTexts == {"Events"}
Titles == {"", "Payroll", "HR"}
Descriptions == {"Pay employees"}
CatalogSelections ==
    {<<>>, <<FinancialDetails>>, <<PoliticalUnion>>, <<FinancialDetails, PoliticalUnion>>}
PoliticalUnionTyped == <<"P","o","l","i","t","i","c","a","l"," ","U","n","i","o","n">>
ExtraTexts == {<<" ","x">>, PoliticalUnionTyped, <<" ">>}
SourceTexts == {"", " ", "Bank feed"}
RecipientTexts == {"Accounting firm"}
RetentionTexts == {"", "7 years"}

\* ------------------------------------------------------------------- state
VARIABLES
    ss,      \* st.session_state
    alias,   \* per purpose: index k if its details hold the extra_cats_k list object, else -1
    sheets,  \* the spreadsheet: tab name -> rows
    page,    \* how the last run ended: error raised and the purpose it was raised in
    msg,     \* the status message the last run left on the page
    io,      \* the persistence calls of the last run
    out,     \* the export and notice the last run produced
    ev,      \* the interaction the last run handled
    clicks   \* the number of interactions so far

vars == <<ss, alias, sheets, page, msg, io, out, ev, clicks>>

PageOk == [err |-> "none", at |-> -1]
PageOf(r) == IF r.status \in {"ok", "gate"} THEN PageOk ELSE [err |-> r.status, at |-> r.at]

Init ==
    /\ ss = GateState
    /\ alias = <<>>
    /\ sheets = EmptyDict
    /\ page = PageOk
    /\ msg = ""
    /\ io = <<>>
    /\ out = NoOutput
    /\ ev = NoEvent
    /\ clicks = 0

Authenticated == ss[AUTH]
Purposes == Get(ss, PURPOSES, <<>>)
\* What the last run drew of the page.
FormsDrawn == Authenticated /\ page.err # "ValueError"
ExpanderDrawn(i) ==
    /\ FormsDrawn /\ i < Len(Purposes)
    /\ (page.err = "none" \/ page.at >= i)
DetailsDrawn(i) ==
    /\ FormsDrawn /\ i < Len(Purposes)
    /\ (page.err = "none" \/ page.at > i)
FooterDrawn == Authenticated /\ page.err = "none"
Before(cats, dup) == {cats[k] : k \in {q \in DOMAIN cats : dup = 0 \/ q < dup}}
DrawnCats(i) ==
    Before(ss[CatWidget(i)].val \o ss[ExtraKey(i)],
           FirstDuplicate(ss[CatWidget(i)].val \o ss[ExtraKey(i)]))

Click == clicks < MaxClicks /\ clicks' = clicks + 1

Shows(r, e) ==
    /\ ss' = r.ss
    /\ alias' = r.alias
    /\ page' = PageOf(r)
    /\ ev' = e

\* The main page after the run for event e.
Interact(e) == Click /\ Shows(RunScript(ss, alias, e), e)

Quiet == msg' = "" /\ io' = <<>> /\ out' = NoOutput /\ UNCHANGED sheets

\* ----------------------------------------------------------------- actions
Truthy(company) == company # None /\ company # <<>>

\* Lines 161-169: the session once the code is accepted and the saved state merged.
Unlocked(s, company, saved) ==
    IF saved # EmptyDict
    THEN restore_state(Put(Put(s, AUTH, TRUE), COMPANY, company), saved)
    ELSE Put(Put(s, AUTH, TRUE), COMPANY, company)

\* Lines 161-170: the merge, then the main page that st.rerun() draws.  The
\* purposes of a loaded state are fresh objects that share no list.
MainAfterUnlock(s) ==
    on_script_finished(RunMain(s, [k \in DOMAIN Get(s, PURPOSES, <<>>) |-> -1], NoEvent))

UnlockRun(s, sh, company, reachable) ==
    MainAfterUnlock(Unlocked(s, company, load_data_from_sheet(sh, company, reachable)))

\* Lines 151-173: the Unlock button of the access code gate.
Unlock(code_input, reachable) ==
    /\ ~Authenticated
    /\ Click
    /\ IF Truthy(validate_code(code_input))
       THEN /\ Shows(UnlockRun(ss, sheets, validate_code(code_input), reachable),
                     Event("Unlock", -1, code_input))
            /\ msg' = ""
            /\ io' = <<[op |-> "load", tab |-> make_tab_name(validate_code(code_input)),
                        ok |-> reachable]>>
       ELSE /\ msg' = "Incorrect access code. Please try again."
            /\ io' = <<>>
            /\ ev' = Event("Unlock", -1, code_input)
            /\ UNCHANGED <<ss, alias, page>>
    /\ out' = NoOutput
    /\ UNCHANGED sheets

\* Lines 193-196: Save Progress, handled before the page is drawn.
SaveProgress(reachable) ==
    /\ Authenticated
    /\ sheets' = IF reachable
                 THEN save_data_to_sheet(sheets, ss[COMPANY], extract_saveable_state(ss))
                 ELSE sheets
    /\ msg' = IF reachable THEN "Saved!" ELSE "Could not save data"
    /\ io' = <<[op |-> "save", tab |-> make_tab_name(ss[COMPANY]), ok |-> reachable]>>
    /\ out' = NoOutput
    /\ Interact(Event("SaveProgress", -1, reachable))

EditCompanyName(v) ==
    /\ Authenticated /\ v # ss[K("company_name")]
    /\ Interact(Event("EditCompanyName", -1, v)) /\ Quiet

EditSubjectCat(v) ==
    /\ FormsDrawn /\ v # ss[K("subject_cat")]
    /\ Interact(Event("EditSubjectCat", -1, v)) /\ Quiet

EditActivities(v) ==
    /\ FormsDrawn /\ v # ss[K("activities")]
    /\ Interact(Event("EditActivities", -1, v)) /\ Quiet

AddPurpose(p_title, p_desc) ==
    /\ FormsDrawn
    /\ Len(Purposes) < MaxPurposes
    /\ Interact(Event("AddPurpose", -1, [title |-> p_title, desc |-> p_desc])) /\ Quiet

RemovePurpose(i) ==
    /\ FormsDrawn /\ i < Len(Purposes)
    /\ Interact(Event("RemovePurpose", i, <<>>)) /\ Quiet

SelectCats(i, selection) ==
    /\ ExpanderDrawn(i) /\ selection # ss[CatWidget(i)].val
    /\ Interact(Event("SelectCats", i, selection)) /\ Quiet

AddExtra(i, new_extra) ==
    /\ ExpanderDrawn(i)
    /\ Len(ss[ExtraKey(i)]) < MaxExtra
    /\ Interact(Event("AddExtra", i, new_extra)) /\ Quiet

DelExtra(i, j) ==
    /\ ExpanderDrawn(i) /\ j < Len(ss[ExtraKey(i)])
    /\ Interact(Event("DelExtra", i, j)) /\ Quiet

ToggleDirect(i, cat, val) ==
    /\ ExpanderDrawn(i) /\ cat \in DrawnCats(i)
    /\ Interact(Event("ToggleDirect", i, [cat |-> cat, val |-> val])) /\ Quiet

EditIndirect(i, v) ==
    /\ DetailsDrawn(i) /\ v # Purposes[i + 1].details.indirect_source
    /\ Interact(Event("EditIndirect", i, v)) /\ Quiet

EditSharing(i, v) ==
    /\ DetailsDrawn(i)
    /\ v # (IF Purposes[i + 1].details.shared = "Internal use only" THEN "No" ELSE "Yes")
    /\ Interact(Event("EditSharing", i, v)) /\ Quiet

EditWho(i, v) ==
    /\ DetailsDrawn(i)
    /\ Purposes[i + 1].details.shared # "Internal use only"
    /\ v # Purposes[i + 1].details.shared
    /\ Interact(Event("EditWho", i, v)) /\ Quiet

EditRetention(i, v) ==
    /\ DetailsDrawn(i) /\ v # Purposes[i + 1].details.retention
    /\ Interact(Event("EditRetention", i, v)) /\ Quiet

EditTransfers(i, v) ==
    /\ DetailsDrawn(i) /\ v # Purposes[i + 1].details.transfers
    /\ Interact(Event("EditTransfers", i, v)) /\ Quiet

\* Lines 399-486: Generate Excel & Final Notice, below the expanders.
Generate ==
    /\ FooterDrawn
    /\ Interact(Event("Generate", -1, <<>>))
    /\ out' = Generated(ss')
    /\ msg' = "" /\ io' = <<>> /\ UNCHANGED sheets

\* Lines 498-501: Start New Questionnaire.
StartNew ==
    /\ FooterDrawn
    /\ Interact(Event("StartNew", -1, <<>>)) /\ Quiet

Indices == 0..(MaxPurposes - 1)

Next ==
    \/ \E c \in Codes, ok \in BOOLEAN : Unlock(c, ok)
    \/ \E ok \in BOOLEAN : SaveProgress(ok)
    \/ \E v \in CompanyNames \cup Range(get_companies) : EditCompanyName(v)
    \/ \E v \in SubjectChoices \cup {"Employees"} : EditSubjectCat(v)
    \/ \E v \in ActivityTexts \cup {""} : EditActivities(v)
    \/ \E t \in Titles, d \in Descriptions : AddPurpose(t, d)
    \/ \E i \in Indices : RemovePurpose(i)
    \/ \E i \in Indices, sel \in CatalogSelections : SelectCats(i, sel)
    \/ \E i \in Indices, x \in ExtraTexts : AddExtra(i, x)
    \/ \E i \in Indices, j \in 0..(MaxExtra - 1) : DelExtra(i, j)
    \/ \E i \in Indices, c \in DOMAIN DATA_CATEGORIES \cup {Strip(x) : x \in ExtraTexts},
          val \in BOOLEAN : ToggleDirect(i, c, val)
    \/ \E i \in Indices, v \in SourceTexts : EditIndirect(i, v)
    \/ \E i \in Indices, v \in Range(share_options) : EditSharing(i, v)
    \/ \E i \in Indices, v \in RecipientTexts \cup {""} : EditWho(i, v)
    \/ \E i \in Indices, v \in RetentionTexts : EditRetention(i, v)
    \/ \E i \in Indices, v \in Range(trans_options) : EditTransfers(i, v)
    \/ Generate
    \/ StartNew

Spec == Init /\ [][Next]_vars

\* ------------------------------------------------------- questionnaire view
\* The fields of the data model: a purpose's detail is its categories, custom
\* categories, the direct flag of each of these (default true), the indirect
\* source note, sharing, retention and transfer flag.
DetailView(d) ==
    [categories |-> Get(d, "categories", <<>>),
     extra_cats |-> Get(d, "extra_cats", <<>>),
     direct |-> [c \in Range(all_cats_export(d)) |->
                    Get(Get(d, "direct_per_cat", EmptyDict), c, TRUE)],
     indirect_source |-> Get(d, "indirect_source", ""),
     shared |-> Get(d, "shared", "Internal use only"),
     retention |-> Get(d, "retention", ""),
     transfers |-> Get(d, "transfers", "No")]

PurposeView(p) == [title |-> p.title, desc |-> p.desc, detail |-> DetailView(Details(p))]

PurposesView(purposes) == [k \in DOMAIN purposes |-> PurposeView(purposes[k])]

QuestionnaireView(s) ==
    [company_name |-> s[K("company_name")],
     subject_cat |-> s[K("subject_cat")],
     activities |-> s[K("activities")],
     purposes |-> PurposesView(s[PURPOSES])]

\* The state held by the organization's worksheet: the blob of its one record.
StoredState(sh, company) ==
    IF make_tab_name(company) \in DOMAIN sh /\ Len(sh[make_tab_name(company)]) >= 2
    THEN sh[make_tab_name(company)][2][2][2]
    ELSE EmptyDict

SameValue(k, a, b) == IF k = PURPOSES THEN PurposesView(a) = PurposesView(b) ELSE a = b

UnlockSucceeds == ~ss[AUTH] /\ ss'[AUTH]

Locked ==
    /\ ~ss[AUTH] /\ ss[COMPANY] = None
    /\ io = <<>>
    /\ DOMAIN ss = {AUTH, COMPANY}

\* C2 as stated: Unlock with a code that is not a key of the organization table
\* leaves the session locked, loads nothing and adds no key.
C2_Original ==
    (ev.kind = "Unlock" /\ ev.payload \notin DOMAIN get_companies) => Locked

\* C2, amended: Unlock with a code whose whitespace-stripped form is not a key
\* of the organization table leaves the session locked (not authenticated, no
\* current company), performs no load and adds no key, after any number of
\* failed attempts.
C2_UnknownCodeStaysLocked ==
    (ev.kind = "Unlock" /\ Strip(ev.payload) \notin DOMAIN get_companies) => Locked

C2_Witness ==
    /\ ev.kind = "Unlock" /\ Strip(ev.payload) \notin DOMAIN get_companies
    /\ clicks >= 2 /\ msg = "Incorrect access code. Please try again."
    /\ sheets # EmptyDict

OwnCats(s, k) == s[CatWidget(k - 1)].val \o s[ExtraKey(k - 1)]

\* The flag the page shows for a category (line 321).
CurrentFlag(s, k, cat) ==
    Get(s, DirectKey(k - 1, cat),
        Get(Get(Details(s[PURPOSES][k]), "direct_per_cat", EmptyDict), cat, TRUE))

Max1(n) == IF n < 1 THEN 1 ELSE n

RECURSIVE RowOffset(_, _)
RowOffset(s, k) ==
    IF k <= 1 THEN 0 ELSE RowOffset(s, k - 1) + Max1(Len(OwnCats(s, k - 1)))

RECURSIVE ParagraphOffset(_, _)
ParagraphOffset(s, k) ==
    IF k <= 1 THEN 0 ELSE ParagraphOffset(s, k - 1) + Len(OwnCats(s, k - 1))

RowOf(s, rows, k, j) == rows[RowOffset(s, k) + j]
ParagraphOf(s, notice, k, j) == notice[ParagraphOffset(s, k) + j]

\* C4: for every purpose with N >= 1 categories (selected catalog categories
\* and added custom categories) Generate produces exactly N rows for it, one
\* per category in order, each with the purpose's title, retention, sharing
\* and transfer values.
C4_RowsPerCategory ==
    out.shown =>
        /\ Len(out.rows) = RowOffset(ss, Len(ss[PURPOSES]) + 1)
        /\ \A k \in DOMAIN ss[PURPOSES] : \A j \in DOMAIN OwnCats(ss, k) :
            /\ RowOf(ss, out.rows, k, j).DataCategory = OwnCats(ss, k)[j]
            /\ RowOf(ss, out.rows, k, j).Purpose = ss[PURPOSES][k].title
            /\ RowOf(ss, out.rows, k, j).Retention = ss[PURPOSES][k].details.retention
            /\ RowOf(ss, out.rows, k, j).Sharing = ss[PURPOSES][k].details.shared
            /\ RowOf(ss, out.rows, k, j).Transfers = ss[PURPOSES][k].details.transfers

C4_Witness ==
    /\ out.shown /\ Len(ss[PURPOSES]) >= 1
    /\ Len(ss[ExtraKey(0)]) = 2
    /\ Len(out.rows) = 2
    /\ out.rows[2].DataCategory = PoliticalUnionTyped
    /\ out.rows[2].Purpose = "Payroll"

\* C5 as stated: for every purpose with no category Generate produces exactly
\* one row, whose Data Category, Obtained Directly from Data Subject and Source
\* if Not Direct fields are all empty.
C5_Original ==
    out.shown =>
        /\ Len(out.rows) = RowOffset(ss, Len(ss[PURPOSES]) + 1)
        /\ \A k \in DOMAIN ss[PURPOSES] :
            OwnCats(ss, k) = <<>> =>
                /\ RowOf(ss, out.rows, k, 1).Purpose = ss[PURPOSES][k].title
                /\ RowOf(ss, out.rows, k, 1).DataCategory = <<>>
                /\ RowOf(ss, out.rows, k, 1).ObtainedDirectly = ""
                /\ RowOf(ss, out.rows, k, 1).SourceIfNotDirect = ""

\* The export's source columns follow each category's flag.
SourceColumns(s, o) ==
    o.shown =>
        \A k \in DOMAIN s[PURPOSES] : \A j \in DOMAIN OwnCats(s, k) :
            IF CurrentFlag(s, k, OwnCats(s, k)[j])
            THEN /\ RowOf(s, o.rows, k, j).ObtainedDirectly = "Yes"
                 /\ RowOf(s, o.rows, k, j).SourceIfNotDirect = ""
            ELSE /\ RowOf(s, o.rows, k, j).ObtainedDirectly = "No"
                 /\ RowOf(s, o.rows, k, j).SourceIfNotDirect
                        = s[PURPOSES][k].details.indirect_source

\* C6 as stated: each export row shows "Yes" and a blank source when the
\* category's flag is true, "No" and the purpose's indirect-source note when it
\* is false; and setting the flag of one category leaves the flag of every
\* other category of the purpose as it was.
C6_Original ==
    [][/\ SourceColumns(ss', out')
       /\ ev'.kind = "ToggleDirect" =>
            \A c \in Range(OwnCats(ss, ev'.i + 1)) \ {ev'.payload.cat} :
                CurrentFlag(ss', ev'.i + 1, c) = CurrentFlag(ss, ev'.i + 1, c)]_vars

\* C7: in the notice, a category whose flag is false in a purpose whose
\* indirect-source note is empty has the source line with "Not specified",
\* the source of an indirect category is never empty, and a category whose
\* flag is true has the line that states direct collection.
C7_NoticeSourceLine ==
    out.shown =>
        /\ Len(out.notice) = ParagraphOffset(ss, Len(ss[PURPOSES]) + 1)
        /\ \A k \in DOMAIN ss[PURPOSES] : \A j \in DOMAIN OwnCats(ss, k) :
            /\ ParagraphOf(ss, out.notice, k, j).Category = OwnCats(ss, k)[j]
            /\ IF CurrentFlag(ss, k, OwnCats(ss, k)[j])
               THEN ParagraphOf(ss, out.notice, k, j).Source
                        = <<"Obtained directly from you.">>
               ELSE /\ Len(ParagraphOf(ss, out.notice, k, j).Source) = 2
                    /\ ParagraphOf(ss, out.notice, k, j).Source[2] # ""
                    /\ ss[PURPOSES][k].details.indirect_source = "" =>
                        ParagraphOf(ss, out.notice, k, j).Source[2] = "Not specified"

C7_Witness ==
    /\ out.shown /\ Len(out.notice) >= 1
    /\ Len(ss[PURPOSES]) >= 1 /\ OwnCats(ss, 1) # <<>>
    /\ ~CurrentFlag(ss, 1, OwnCats(ss, 1)[1])
    /\ ss[PURPOSES][1].details.indirect_source = ""
    /\ out.notice[1].Source[2] = "Not specified"

\* C8 as stated: the notice has at least one transfer warning for every purpose
\* whose transfer flag is "Yes (Outside EU/UK)", whatever its categories, and
\* none for a purpose whose flag is "No".
C8_Original ==
    out.shown =>
        /\ Len(out.notice) = ParagraphOffset(ss, Len(ss[PURPOSES]) + 1)
        /\ \A k \in DOMAIN ss[PURPOSES] :
            /\ ss[PURPOSES][k].details.transfers = "Yes (Outside EU/UK)" =>
                \E j \in DOMAIN OwnCats(ss, k) : ParagraphOf(ss, out.notice, k, j).Warning
            /\ ss[PURPOSES][k].details.transfers = "No" =>
                \A j \in DOMAIN OwnCats(ss, k) : ~ParagraphOf(ss, out.notice, k, j).Warning

DefaultDetail == DetailView(EmptyDict)

\* C9 as stated: Add Purpose with an empty title leaves the purposes list as it
\* was; with a non-empty title it appends one purpose with that title, that
\* description and an empty detail, and leaves the existing purposes and their
\* positions as they were.
C9_Original ==
    [][ev'.kind = "AddPurpose" =>
        IF ev'.payload.title = ""
        THEN ss'[PURPOSES] = ss[PURPOSES]
        ELSE /\ Len(ss'[PURPOSES]) = Len(ss[PURPOSES]) + 1
             /\ ss'[PURPOSES][Len(ss'[PURPOSES])].title = ev'.payload.title
             /\ ss'[PURPOSES][Len(ss'[PURPOSES])].desc = ev'.payload.desc
             /\ DetailView(Details(ss'[PURPOSES][Len(ss'[PURPOSES])])) = DefaultDetail
             /\ \A k \in DOMAIN ss[PURPOSES] : ss'[PURPOSES][k] = ss[PURPOSES][k]]_vars

\* --------------------------------------------------- malformed stored state
\* States that the spreadsheet can hold and the page never writes: a subject
\* category outside the options; a purpose without details; a purpose whose
\* details hold a category outside the catalog and a transfer value outside
\* the options.
StoredSubjectOutsideOptions ==
    Put(Put(EmptyDict, K("subject_cat"), "Students"), PURPOSES, <<>>)

StoredPurposeWithoutDetails ==
    Put(EmptyDict, PURPOSES, <<[title |-> "Payroll", desc |-> "Pay employees"]>>)

StoredDetailsOutsideOptions ==
    Put(EmptyDict, PURPOSES,
        <<[title |-> "HR", desc |-> "Pay employees",
           details |-> [categories |-> <<<<"x">>, FinancialDetails>>,
                        transfers |-> "Maybe"]]>>)

MalformedStates ==
    {StoredSubjectOutsideOptions, StoredPurposeWithoutDetails, StoredDetailsOutsideOptions}

StoredSheet(state_dict) ==
    save_data_to_sheet(EmptyDict, get_companies[<<"k", "1">>], state_dict)

InitStored ==
    /\ ss = GateState
    /\ alias = <<>>
    /\ sheets \in {StoredSheet(m) : m \in MalformedStates}
    /\ page = PageOk
    /\ msg = ""
    /\ io = <<>>
    /\ out = NoOutput
    /\ ev = NoEvent
    /\ clicks = 0

SpecStored == InitStored /\ [][Next]_vars

\* C10 as stated: after a malformed stored state is loaded, the questionnaire
\* is drawn without an error, and each malformed field is treated as its
\* default: the subject category is one of the options, every purpose has
\* details, its categories are catalog categories and its transfer value is
\* one of the options.
C10_Original ==
    (ev.kind = "Unlock" /\ ss[AUTH] /\ io[1].ok) =>
        /\ page.err = "none"
        /\ ss[K("subject_cat")] \in Range(subject_options)
        /\ \A k \in DOMAIN ss[PURPOSES] :
            /\ "details" \in DOMAIN ss[PURPOSES][k]
            /\ Range(ss[PURPOSES][k].details.categories) \subseteq DOMAIN DATA_CATEGORIES
            /\ ss[PURPOSES][k].details.transfers \in Range(trans_options)

C12_Original ==
    [][ev'.kind = "RemovePurpose" =>
        /\ PurposesView(ss'[PURPOSES]) = PurposesView(Pop(ss[PURPOSES], ev'.i))
        /\ \A k \in DOMAIN ss'[PURPOSES] :
            ExtraKey(k - 1) \in DOMAIN extract_saveable_state(ss') =>
                extract_saveable_state(ss')[ExtraKey(k - 1)]
                    = Get(Details(Pop(ss[PURPOSES], ev'.i)[k]), "extra_cats", <<>>)]_vars

====
